---------------------------- MODULE Spec2Model ----------------------------
(***************************************************************************)
(* Model of the outpost build-orchestration core:                          *)
(*   - the task-descriptor bit fields  (relocation/task_meta.py)           *)
(*   - the dynamic-dependency synthesizer                                  *)
(*                                   (_internals/meson_package_dyndep.py)  *)
(*   - the ninja graph generator     (buildsys/ninja_backend.py) read by   *)
(*     a ninja-like executor, over packages (package/package.py)           *)
(* Three specifications share the variables: SpecCodec, SpecDyndep, Spec.  *)
(***************************************************************************)
EXTENDS Integers, Sequences, FiniteSets, TLC

VARIABLES
    flags_raw,      \* JobFlags.raw     (unsigned int)
    handle_raw,     \* TaskHandle.raw   (unsigned int)
    fs,             \* file system: path -> NoFile or the file's content
    config,         \* package name -> Package._config node
    rules,          \* rule statements written by the generator
    edges,          \* build statements written by the generator
    called,         \* generator methods already called on this NinjaGenFile
    file_closed,    \* NinjaGenFile.close() has run
    loaded,         \* executor: "no", "ok" or "rejected"
    status,         \* executor: build statement -> "pending"|"running"|"done"|"failed"
    dyndeps,        \* executor: dyndep file -> NoFile or the declaration loaded from it
    call            \* the last call: operation, argument, state before, result

vars == << flags_raw, handle_raw, fs, config, rules, edges, called,
           file_closed, loaded, status, dyndeps, call >>

codecVars  == << flags_raw, handle_raw >>
dyndepVars == << fs >>
graphVars  == << config, rules, edges, called, file_closed, loaded, status,
                 dyndeps >>

\* results of a call: a returned value, plain completion, or a raised exception
Returned(v) == [kind |-> "value", value |-> v]
Completed   == [kind |-> "ok", value |-> "none"]
Raised(e)   == [kind |-> "error", value |-> e]

NoCall == [op |-> "none", arg |-> "none", before |-> "none", ret |-> Completed]

(***************************************************************************)
(* Words.  An unsigned value is the set of the positions of its 1 bits     *)
(* (bit 0 the least significant), so that Python's &, |, <<, >> and ~ are  *)
(* computed bit by bit and a 32-bit field keeps its width.                 *)
(***************************************************************************)
WordBits == 32
Word == SUBSET (0 .. WordBits - 1)

RECURSIVE Pow2(_)
Pow2(n) == IF n = 0 THEN 1 ELSE 2 * Pow2(n - 1)

\* an int literal or argument (below 2^31) as a word, and back
FromInt(n) == { i \in 0 .. 30 : (n \div Pow2(i)) % 2 = 1 }
RECURSIVE ToInt(_)
ToInt(w) ==
    IF w = {} THEN 0
    ELSE LET i == CHOOSE j \in w : TRUE IN Pow2(i) + ToInt(w \ {i})

BitAnd(a, b) == a \cap b
BitOr(a, b)  == a \cup b
Shl(a, k)    == { i + k : i \in a }
Shr(a, k)    == { i - k : i \in { j \in a : j >= k } }
\* raw & (~m) on a raw that fits the field: only bits 0..31 of ~m matter
Not32(m)     == (0 .. WordBits - 1) \ m

(***************************************************************************)
(* JobFlags                                                                *)
(***************************************************************************)
JOB_FLAG_START_NOAUTO == 0
JOB_FLAG_START_AUTO == 1
JOB_FLAG_EXIT_NORESTART == 0
JOB_FLAG_EXIT_RESTART == 1
JOB_FLAG_EXIT_PANIC == 2
JOB_FLAG_EXIT_PERIODICRESTART == 3
JOB_FLAG_EXIT_RESET == 4

\* the dict _exit_mode of the exit_mode setter
ExitModeNames == {"norestart", "restart", "panic", "periodic", "reset"}
ExitModeDict(mode) ==
    CASE mode = "norestart" -> JOB_FLAG_EXIT_NORESTART
      [] mode = "restart"   -> JOB_FLAG_EXIT_RESTART
      [] mode = "panic"     -> JOB_FLAG_EXIT_PANIC
      [] mode = "periodic"  -> JOB_FLAG_EXIT_PERIODICRESTART
      [] mode = "reset"     -> JOB_FLAG_EXIT_RESET

\* the literals 0x1, 0x7, 0xfffffffe, 0xfffffff1
Lit_0x1 == {0}
Lit_0x7 == 0 .. 2
Lit_0xfffffffe == 1 .. 31
Lit_0xfffffff1 == {0} \cup (4 .. 31)

\* return self.raw & 0x1 == cstruct.getdef('JOB_FLAG_START_AUTO')
autostart_mode_get(raw) == BitAnd(raw, Lit_0x1) = FromInt(JOB_FLAG_START_AUTO)

\* self.raw = self.raw & 0xfffffffe ; self.raw = self.raw | (start_mode & 0x1)
autostart_mode_set(raw, auto) ==
    LET start_mode == IF auto THEN JOB_FLAG_START_AUTO ELSE JOB_FLAG_START_NOAUTO
        cleared == BitAnd(raw, Lit_0xfffffffe)
    IN  BitOr(cleared, BitAnd(FromInt(start_mode), Lit_0x1))

\* return (self.raw >> 1) & 0x7     (the value read is not validated)
exit_mode_get(raw) == ToInt(BitAnd(Shr(raw, 1), Lit_0x7))

\* a setter whose mask (0xfffffff0) also clears the autostart bit
Mutant_exit_mode_set(raw, mode) ==
    BitOr(BitAnd(raw, 4 .. 31), Shl(BitAnd(FromInt(ExitModeDict(mode)), Lit_0x7), 1))

\* mode = _exit_mode[mode]; self.raw = self.raw & 0xfffffff1
\* self.raw = self.raw | ((mode & 0x7) << 1)
exit_mode_set(raw, mode) ==
    LET m == FromInt(ExitModeDict(mode))
        cleared == BitAnd(raw, Lit_0xfffffff1)
    IN  BitOr(cleared, Shl(BitAnd(m, Lit_0x7), 1))

(***************************************************************************)
(* TaskHandle                                                              *)
(***************************************************************************)
id_shift == 13
\* _id_mask = (0x0000ffff << _id_shift)
id_mask == Shl(0 .. 15, id_shift)

\* return (self.raw & self._id_mask) >> self._id_shift
id_get(raw) == ToInt(Shr(BitAnd(raw, id_mask), id_shift))

\* a setter that assigns the field instead of updating it
Mutant_id_set(raw, id) == BitAnd(Shl(FromInt(id), id_shift), id_mask)

\* self.raw = self.raw & (~self._id_mask)
\* self.raw = self.raw | (id << self._id_shift & (self._id_mask))
id_set(raw, id) ==
    LET cleared == BitAnd(raw, Not32(id_mask))
    IN  BitOr(cleared, BitAnd(Shl(FromInt(id), id_shift), id_mask))

(***************************************************************************)
(* Descriptor codec: calls on one JobFlags and one TaskHandle object       *)
(***************************************************************************)
\* field contents a descriptor can be loaded with (MemCStruct unpacks any
\* 4 bytes).  JobFlags: 0x3, 0xA, 0x80000010, 0xFFFFFFFF
FlagsSamples == { {0, 1}, {1, 3}, {4, 31}, 0 .. 31 }
\* TaskHandle: 0, 0x1FFFE000, 0xE0001FFF, 0xFFFFFFFF
HandleSamples == { {}, 13 .. 28, (0 .. 12) \cup (29 .. 31), 0 .. 31 }
\* ids handed to the id setter: 16-bit values and two wider ones
IdSamples == {0, 43690, 65535, 65536, 131071}
ModeArgs == ExitModeNames \cup {"bogus"}

IdleCodec == flags_raw = {} /\ handle_raw = {}

JobFlags_autostart_mode_get ==
    /\ call' = [op |-> "autostart_mode.get", arg |-> "none", before |-> flags_raw,
                ret |-> Returned(autostart_mode_get(flags_raw))]
    /\ UNCHANGED << codecVars, dyndepVars, graphVars >>

JobFlags_autostart_mode_set ==
    \E auto \in BOOLEAN :
        /\ flags_raw' = autostart_mode_set(flags_raw, auto)
        /\ call' = [op |-> "autostart_mode.set", arg |-> auto, before |-> flags_raw,
                    ret |-> Completed]
        /\ UNCHANGED << handle_raw, dyndepVars, graphVars >>

JobFlags_exit_mode_get ==
    /\ call' = [op |-> "exit_mode.get", arg |-> "none", before |-> flags_raw,
                ret |-> Returned(exit_mode_get(flags_raw))]
    /\ UNCHANGED << codecVars, dyndepVars, graphVars >>

JobFlags_exit_mode_set ==
    \E mode \in ModeArgs :
        /\ IF mode \in ExitModeNames
           THEN /\ flags_raw' = exit_mode_set(flags_raw, mode)
                /\ call' = [op |-> "exit_mode.set", arg |-> mode,
                            before |-> flags_raw, ret |-> Completed]
           ELSE \* _exit_mode[mode] raises KeyError before raw is touched
                /\ flags_raw' = flags_raw
                /\ call' = [op |-> "exit_mode.set", arg |-> mode,
                            before |-> flags_raw, ret |-> Raised("KeyError")]
        /\ UNCHANGED << handle_raw, dyndepVars, graphVars >>

TaskHandle_id_get ==
    /\ call' = [op |-> "id.get", arg |-> "none", before |-> handle_raw,
                ret |-> Returned(id_get(handle_raw))]
    /\ UNCHANGED << codecVars, dyndepVars, graphVars >>

TaskHandle_id_set ==
    \E id \in IdSamples :
        /\ handle_raw' = id_set(handle_raw, id)
        /\ call' = [op |-> "id.set", arg |-> id, before |-> handle_raw,
                    ret |-> Completed]
        /\ UNCHANGED << flags_raw, dyndepVars, graphVars >>

(***************************************************************************)
(* Dependency synthesizer (meson_package_dyndep.py)                        *)
(* A str is a sequence of one-character strings where the code slices it   *)
(* (install destinations, the staging directory); file names that are only *)
(* compared are atoms.                                                     *)
(***************************************************************************)
SetOf(seq) == { seq[i] : i \in DOMAIN seq }

\* f[1:]
SliceFrom1(f) == SubSeq(f, 2, Len(f))

\* pathlib's parsing of a POSIX path: runs of "/" collapse to one, except a
\* leading run of exactly two; a trailing "/" is dropped
RECURSIVE CollapseSep(_)
CollapseSep(p) ==
    IF Len(p) < 2 THEN p
    ELSE IF p[1] = "/" /\ p[2] = "/" THEN CollapseSep(Tail(p))
    ELSE << p[1] >> \o CollapseSep(Tail(p))

DropTrailingSep(p) ==
    IF Len(p) > 1 /\ p[Len(p)] = "/" THEN SubSeq(p, 1, Len(p) - 1) ELSE p

PurePath(p) ==
    IF Len(p) >= 2 /\ p[1] = "/" /\ p[2] = "/" /\ (Len(p) = 2 \/ p[3] # "/")
    THEN << "/" >> \o DropTrailingSep(CollapseSep(Tail(p)))
    ELSE DropTrailingSep(CollapseSep(p))

\* stagingdir / s   (Path.__truediv__: an absolute right operand replaces the left)
PathJoin(base, s) ==
    IF s = << >> THEN base
    ELSE IF s[1] = "/" THEN PurePath(s)
    ELSE PurePath(base \o << "/" >> \o s)

HasKey(d, k) == k \in DOMAIN d

\* lines 60-63: one target_sources group
GroupSources(g) ==
    (IF HasKey(g, "sources") THEN g.sources ELSE << >>)
    \o (IF HasKey(g, "generated_sources") THEN g.generated_sources ELSE << >>)

RECURSIVE GroupsSources(_)
GroupsSources(groups) ==
    IF groups = << >> THEN << >>
    ELSE GroupSources(Head(groups)) \o GroupsSources(Tail(groups))

\* lines 56-63: package_sources, the loop over introspect["targets"]
RECURSIVE PackageSources(_)
PackageSources(targets) ==
    IF targets = << >> THEN << >>
    ELSE (IF HasKey(Head(targets), "target_sources")
          THEN GroupsSources(Head(targets).target_sources) ELSE << >>)
         \o PackageSources(Tail(targets))

\* one "build <target> [| outs]: dyndep [| ins]" block with its restat line;
\* the sets are written in set-iteration order, which no reader depends on
add_build_target_dyndep(target, implicit_inputs, implicit_output) ==
    [ target           |-> target,
      out_bar          |-> implicit_output # {},
      implicit_outputs |-> implicit_output,
      in_bar           |-> implicit_inputs # {},
      implicit_inputs  |-> implicit_inputs,
      restat           |-> 1 ]

NoFile == [kind |-> "absent"]
\* a file opened with mode "w" and not written yet
OpenedForWrite == [kind |-> "empty"]

\* a variant that forgets compile_implicit_inputs.difference_update(...)
Mutant_compile_implicit_inputs(package_buildsys_files, package_sources, installed) ==
    SetOf(package_buildsys_files \o package_sources)

\* lines 67-69
compile_implicit_inputs(package_buildsys_files, package_sources, installed) ==
    SetOf(package_buildsys_files \o package_sources) \ DOMAIN installed

\* a variant that keeps the destination's leading separator
Mutant_install_implicit_outputs(stagingdir, installed) ==
    { PathJoin(stagingdir, installed[k]) : k \in DOMAIN installed }

\* line 72
install_implicit_outputs(stagingdir, installed) ==
    { PathJoin(stagingdir, SliceFrom1(installed[k])) : k \in DOMAIN installed }

\* a variant that opens the output before it reads the snapshot
Mutant_gen_ninja_dyndep_file(package, introspect, stagingdir, old) ==
    IF \E k \in {"buildsystem_files", "targets", "installed"} : ~HasKey(introspect, k)
    THEN [ret |-> Raised("KeyError"), file |-> OpenedForWrite]
    ELSE [ret |-> Completed,
          file |-> [kind |-> "dyndep", version |-> 1,
                    blocks |-> <<
                      add_build_target_dyndep(<< package, "_compile.stamp" >>,
                        compile_implicit_inputs(introspect.buildsystem_files,
                          PackageSources(introspect.targets), introspect.installed),
                        DOMAIN introspect.installed),
                      add_build_target_dyndep(<< package, "_install.stamp" >>,
                        DOMAIN introspect.installed,
                        install_implicit_outputs(stagingdir, introspect.installed)) >>]]

\* _gen_ninja_dyndep_file: the result and the content of the output file
\* afterwards (old: its content before the call)
gen_ninja_dyndep_file(package, introspect, stagingdir, old) ==
    IF ~HasKey(introspect, "buildsystem_files") THEN
        [ret |-> Raised("KeyError"), file |-> old]                \* line 55
    ELSE IF ~HasKey(introspect, "targets") THEN
        [ret |-> Raised("KeyError"), file |-> old]                \* line 57
    ELSE IF ~HasKey(introspect, "installed") THEN
        [ret |-> Raised("KeyError"), file |-> old]                \* line 65
    ELSE
        LET compile_target == << package, "_compile.stamp" >>
            install_target == << package, "_install.stamp" >>
            package_sources == PackageSources(introspect.targets)
            installed == introspect.installed
            compile_implicit_outputs == DOMAIN installed
            compile_in == compile_implicit_inputs(introspect.buildsystem_files,
                                                  package_sources, installed)
            install_implicit_inputs == compile_implicit_outputs
            install_out == install_implicit_outputs(stagingdir, installed)
        IN  [ret |-> Completed,
             file |-> [kind |-> "dyndep", version |-> 1,
                       blocks |-> <<
                         add_build_target_dyndep(compile_target, compile_in,
                                                 compile_implicit_outputs),
                         add_build_target_dyndep(install_target,
                                                 install_implicit_inputs,
                                                 install_out) >>]]

\* the dyndep and -j arguments of the command
DyndepPath == "dyndep"
JsonPath == "json"

\* run_meson_package_dyndep (lines 99-104): result and content of the dyndep
\* file afterwards.  builddir_exists: whether builddir.resolve(strict=True)
\* finds the directory; returncode and stdout: what "meson introspect" gave
meson_package_dyndep_result(name, builddir_exists, returncode, stdout, stagingdir, old) ==
    IF ~builddir_exists THEN [ret |-> Raised("FileNotFoundError"), file |-> old]
    ELSE IF returncode # 0 THEN [ret |-> Raised("CalledProcessError"), file |-> old]
    ELSE IF ~stdout.json THEN [ret |-> Raised("JSONDecodeError"), file |-> old]
    ELSE gen_ninja_dyndep_file(name, stdout.doc, stagingdir, old)

\* --- inputs -----------------------------------------------------------
Chars_usr_bin_C == << "/", "u", "s", "r", "/", "b", "i", "n", "/", "C" >>
Chars_G         == << "/", "G" >>
Chars_rel_A     == << "u", "/", "A" >>
Chars_dslash_D  == << "/", "/", "D" >>
Chars_stage     == << "/", "s", "t", "a", "g", "e" >>

EmptyMap == [k \in {} |-> << >>]
InstalledChoices ==
    { EmptyMap,
      [k \in {"C"} |-> Chars_usr_bin_C],
      [k \in {"C", "G"} |-> IF k = "C" THEN Chars_usr_bin_C ELSE Chars_G],
      [k \in {"A"} |-> Chars_rel_A],
      [k \in {"D"} |-> Chars_dslash_D] }

BuildsysChoices == { << "A", "B" >>, << "A", "C" >> }

TargetsChoices ==
    { << >>,
      << [name |-> "t1", target_sources |-> << [sources |-> << "C" >>] >>] >>,
      << [name |-> "t0"],
         [name |-> "t2",
          target_sources |-> << [sources |-> << "C", "D" >>,
                                 generated_sources |-> << "G" >>],
                                [language |-> "c"],
                                [generated_sources |-> << "H" >>] >>] >> }

SnapshotKeys == {"buildsystem_files", "targets", "installed"}
FullSnapshots ==
    { [buildsystem_files |-> b, targets |-> t, installed |-> i] :
        b \in BuildsysChoices, t \in TargetsChoices, i \in InstalledChoices }
\* snapshots with every expected key, and one with each key missing in turn
Snapshots ==
    FullSnapshots \cup
    { [k \in SnapshotKeys \ {missing} |->
          [buildsystem_files |-> << "A", "B" >>, targets |-> << >>,
           installed |-> EmptyMap][k]] : missing \in SnapshotKeys }

NotJson == [json |-> FALSE, doc |-> "garbage"]
Stdouts == { NotJson } \cup { [json |-> TRUE, doc |-> d] : d \in Snapshots }
PackageNames == {"libshield", "hello"}

IdleDyndep == fs = [p \in {DyndepPath, JsonPath} |-> NoFile]

\* run (lines 107-123) hands args.dyndep and args.json to
\* run_meson_package_dyndep (lines 84-104) as dyndep and outfile; the body
\* opens dyndep only, outfile is not referred to, so fs[JsonPath] stays as
\* it was

run_meson_package_dyndep ==
    \E name \in {"hello"}, builddir_exists \in BOOLEAN, returncode \in {0, 1},
       stdout \in Stdouts, stagingdir \in {Chars_stage} :
        LET res == meson_package_dyndep_result(name, builddir_exists, returncode,
                                               stdout, stagingdir, fs[DyndepPath])
        IN  /\ fs' = [fs EXCEPT ![DyndepPath] = res.file]
            /\ call' = [op |-> "run_meson_package_dyndep",
                        arg |-> [name |-> name, builddir_exists |-> builddir_exists,
                                 returncode |-> returncode, stdout |-> stdout,
                                 stagingdir |-> stagingdir, dyndep |-> DyndepPath,
                                 outfile |-> JsonPath],
                        before |-> fs, ret |-> res.ret]
            /\ UNCHANGED << codecVars, graphVars >>

(***************************************************************************)
(* Package (package/package.py): accessors over the configuration node     *)
(***************************************************************************)
None == "None"

\* Package.deps: self._config["deps"] if "deps" in self._config else list()
Package_deps(cfg) == IF HasKey(cfg, "deps") THEN cfg["deps"] ELSE << >>

\* Package.__getattr__, which answers build_dir, src_dir and staging_dir
Package_getattr(cfg, attr) == IF HasKey(cfg, attr) THEN cfg[attr] ELSE None

\* Package.build_opts; self._config['config_file'] raises KeyError when absent
Package_build_opts(cfg) ==
    << << "-Dconfig=", cfg["config_file"] >>,
       IF HasKey(cfg, "build_opts") THEN cfg["build_opts"] ELSE << >> >>

(***************************************************************************)
(* Graph generator (buildsys/ninja_backend.py).  A name built by an        *)
(* f-string is the tuple of its parts (a plain name is a 1-tuple); rules    *)
(* and build statements are                                                *)
(* records; comments, blank lines and top-level variables are left out.    *)
(***************************************************************************)
NoPool == "none"

Rule(name, pool, generator) == [name |-> name, pool |-> pool, generator |-> generator]

\* ninja_syntax.Writer.build; a str argument stands for a one-element list
Build(outputs, rule, inputs, implicit, order_only, implicit_outputs, variables) ==
    [ outputs |-> outputs, rule |-> rule, inputs |-> inputs, implicit |-> implicit,
      order_only |-> order_only, implicit_outputs |-> implicit_outputs,
      variables |-> variables ]

NoVars == [k \in {} |-> None]

\* lines 35-41
outpost_rules == { Rule("outpost_reconfigure", "console", TRUE) }

internal_commands ==
    { "capture_out", "gen_ldscript", "gen_memory_layout", "gen_task_metadata_bin",
      "kernel_fixup", "meson_package_dyndep", "objcopy", "relink_elf", "srec_cat" }

\* a variant that leaves the internal rules out of the console pool
Mutant_add_outpost_internal_rule(name) == Rule(name, NoPool, FALSE)

\* lines 44-51: _add_outpost_internal_rule
add_outpost_internal_rule(name) == Rule(name, "console", FALSE)

\* lines 66-75: one rule per internal command, then the generic rule
outpost_internals_rules ==
    { add_outpost_internal_rule(c) : c \in internal_commands }
    \cup { Rule("internal", "console", FALSE) }

\* lines 251-272
meson_rules ==
    { Rule("meson_setup", "console", FALSE),
      Rule("meson_compile", "console", FALSE),
      Rule("meson_install", "console", FALSE) }

\* the Project handed to add_outpost_targets
ProjectConfigPath == << "outpost.toml" >>
ProjectSavePath == << "outpost.save" >>
ProjectDir == "projectdir"

\* lines 79-89
outpost_targets ==
    LET project_implicit_deps == << ProjectConfigPath, ProjectSavePath >>
    IN  { Build(project_implicit_deps, "phony", << >>, << >>, << >>, << >>, NoVars),
          Build(<< << "build.ninja" >> >>, "outpost_reconfigure", << >>,
                project_implicit_deps, << >>, << >>,
                [projectdir |-> ProjectDir]) }

\* a variant that orders configure after the phony alias instead
Mutant_configure_order_only(deps) ==
    [i \in DOMAIN deps |-> << deps[i], "_install" >>]

\* line 285: [f"{dep}_install.stamp" for dep in package.deps]
configure_order_only(deps) ==
    [i \in DOMAIN deps |-> << deps[i], "_install.stamp" >>]

\* a variant whose compile step does not wait for the declaration
Mutant_compile_order_only(name) == << >>

\* line 312: order_only=f"{package.name}.dyndep"
compile_order_only(name) == << << name, ".dyndep" >> >>

\* line 326
install_order_only(name) == << << name, ".dyndep" >> >>

\* line 293
dyndep_order_only(name) == << << name, "_setup" >> >>

\* lines 276-330: the seven build statements of one package
meson_package_edges(name, cfg) ==
    LET build_dir == Package_getattr(cfg, "build_dir")
        src_dir == Package_getattr(cfg, "src_dir")
        staging_dir == Package_getattr(cfg, "staging_dir")
        build_ninja == << build_dir, "/build.ninja" >>
    IN  { Build(<< build_ninja >>, "meson_setup", << >>, << >>,
                configure_order_only(Package_deps(cfg)), << >>,
                [builddir |-> build_dir, sourcedir |-> src_dir, name |-> name,
                 opts |-> Package_build_opts(cfg)]),
          Build(<< << name, "_setup" >> >>, "phony", << build_ninja >>,
                << >>, << >>, << >>, NoVars),
          Build(<< << name, ".dyndep" >> >>, "meson_package_dyndep", << >>, << >>,
                dyndep_order_only(name), << << name, "_introspect.json" >> >>,
                [name |-> name, builddir |-> build_dir, stagingdir |-> staging_dir,
                 json |-> << name, "_introspect.json" >>]),
          Build(<< << name, "_compile.stamp" >> >>, "meson_compile", << >>, << >>,
                compile_order_only(name), << >>,
                [builddir |-> build_dir, name |-> name,
                 dyndep |-> << name, ".dyndep" >>]),
          Build(<< << name, "_compile" >> >>, "phony",
                << << name, "_compile.stamp" >> >>, << >>, << >>, << >>, NoVars),
          Build(<< << name, "_install.stamp" >> >>, "meson_install", << >>, << >>,
                install_order_only(name), << >>,
                [builddir |-> build_dir, name |-> name, stagingdir |-> staging_dir,
                 dyndep |-> << name, ".dyndep" >>]),
          Build(<< << name, "_install" >> >>, "phony",
                << << name, "_install.stamp" >> >>, << >>, << >>, << >>, NoVars) }

\* Path.resolve(): a relative path is made absolute under the working directory
Cwd == << "/", "work" >>
Resolve(path) == IF path # << >> /\ path[1] = "/" THEN path ELSE Cwd \o path

\* lines 109-110: the implicit inputs of the memory-layout edge
memory_layout_implicit(dependencies, sys_exelist, app_exelist) ==
    [i \in DOMAIN dependencies |-> << dependencies[i], "_install.stamp" >>]
    \o [i \in DOMAIN app_exelist |-> Resolve(app_exelist[i])]

\* lines 108-120
memory_layout_edge(output, dependencies, sys_exelist, app_exelist) ==
    LET exes == sys_exelist \o app_exelist
        exelist_opt == [i \in DOMAIN exes |-> Resolve(exes[i])]
    IN  Build(<< output >>, "internal", << >>,
              memory_layout_implicit(dependencies, sys_exelist, app_exelist),
              << >>, << >>,
              [cmd |-> "gen_memory_layout", args |-> << output, exelist_opt >>,
               description |-> "generating firmware memory layout"])

(***************************************************************************)
(* Calls on one NinjaGenFile, each method at most once per target          *)
(***************************************************************************)
BaseConfig(name) ==
    [ build_dir   |-> IF name = "hello" THEN "build/hello" ELSE "build/libshield",
      src_dir     |-> IF name = "hello" THEN "src/hello" ELSE "src/libshield",
      staging_dir |-> "staging",
      config_file |-> IF name = "hello" THEN "hello.config" ELSE "libshield.config" ]

WithKey(cfg, key, val) ==
    [k \in DOMAIN cfg \cup {key} |-> IF k = key THEN val ELSE cfg[k]]
WithoutKey(cfg, key) == [k \in DOMAIN cfg \ {key} |-> cfg[k]]

\* configuration nodes of the two packages of a project, among them a
\* dependency on an undeclared package, a cycle, and missing keys
ConfigChoices(name) ==
    IF name = "hello"
    THEN { BaseConfig(name),
           WithKey(BaseConfig(name), "deps", << "libshield" >>),
           WithoutKey(WithKey(BaseConfig(name), "deps", << "libshield" >>), "build_dir"),
           WithKey(BaseConfig(name), "deps", << "libshield", "ghost" >>),
           WithoutKey(BaseConfig(name), "config_file") }
    ELSE { BaseConfig(name),
           WithKey(BaseConfig(name), "deps", << >>),
           WithKey(BaseConfig(name), "deps", << "hello" >>),
           WithoutKey(BaseConfig(name), "build_dir") }

Projects == { c \in [PackageNames -> UNION { ConfigChoices(n) : n \in PackageNames }] :
                \A n \in PackageNames : c[n] \in ConfigChoices(n) }

KernelElf == << "/", "build", "kernel.elf" >>
AppElf == << "staging", "hello.elf" >>
LayoutOutput == << "layout.json" >>
\* arguments of add_internal_gen_memory_layout_target
LayoutArgs ==
    { [dependencies |-> << >>, sys_exelist |-> << >>, app_exelist |-> << >>],
      [dependencies |-> << "hello" >>, sys_exelist |-> << KernelElf >>,
       app_exelist |-> << AppElf >>],
      [dependencies |-> << "libshield", "hello" >>, sys_exelist |-> << >>,
       app_exelist |-> << AppElf >>],
      [dependencies |-> << >>, sys_exelist |-> << KernelElf >>,
       app_exelist |-> << >>] }

NoStatus == [e \in {} |-> "pending"]
\* no dyndep file has been built yet
NoDyndeps == [d \in { << n, ".dyndep" >> : n \in PackageNames } |-> NoFile]

IdleGraph ==
    /\ config = [n \in PackageNames |-> BaseConfig(n)]
    /\ rules = {} /\ edges = {} /\ called = {}
    /\ file_closed = FALSE /\ loaded = "no" /\ status = NoStatus
    /\ dyndeps = NoDyndeps

GenCall(id) == ~file_closed /\ id \notin called

add_outpost_rules ==
    /\ GenCall(<< "add_outpost_rules" >>)
    /\ rules' = rules \cup outpost_rules
    /\ called' = called \cup { << "add_outpost_rules" >> }
    /\ call' = [op |-> "add_outpost_rules", arg |-> "none", before |-> "none",
                ret |-> Completed]
    /\ UNCHANGED << config, edges, file_closed, loaded, status, dyndeps,
                    codecVars, dyndepVars >>

add_outpost_internals_rules ==
    /\ GenCall(<< "add_outpost_internals_rules" >>)
    /\ rules' = rules \cup outpost_internals_rules
    /\ called' = called \cup { << "add_outpost_internals_rules" >> }
    /\ call' = [op |-> "add_outpost_internals_rules", arg |-> "none",
                before |-> "none", ret |-> Completed]
    /\ UNCHANGED << config, edges, file_closed, loaded, status, dyndeps,
                    codecVars, dyndepVars >>

add_meson_rules ==
    /\ GenCall(<< "add_meson_rules" >>)
    /\ rules' = rules \cup meson_rules
    /\ called' = called \cup { << "add_meson_rules" >> }
    /\ call' = [op |-> "add_meson_rules", arg |-> "none", before |-> "none",
                ret |-> Completed]
    /\ UNCHANGED << config, edges, file_closed, loaded, status, dyndeps,
                    codecVars, dyndepVars >>

add_outpost_targets ==
    /\ GenCall(<< "add_outpost_targets" >>)
    /\ edges' = edges \cup outpost_targets
    /\ called' = called \cup { << "add_outpost_targets" >> }
    /\ call' = [op |-> "add_outpost_targets", arg |-> "none", before |-> "none",
                ret |-> Completed]
    /\ UNCHANGED << config, rules, file_closed, loaded, status, dyndeps,
                    codecVars, dyndepVars >>

add_meson_package ==
    \E name \in DOMAIN config :
        /\ GenCall(<< "add_meson_package", name >>)
        /\ called' = called \cup { << "add_meson_package", name >> }
        /\ IF HasKey(config[name], "config_file")
           THEN /\ edges' = edges \cup meson_package_edges(name, config[name])
                /\ call' = [op |-> "add_meson_package", arg |-> name,
                            before |-> "none", ret |-> Completed]
           ELSE \* package.build_opts raises before the first build statement
                /\ edges' = edges
                /\ call' = [op |-> "add_meson_package", arg |-> name,
                            before |-> "none", ret |-> Raised("KeyError")]
        /\ UNCHANGED << config, rules, file_closed, loaded, status, dyndeps,
                    codecVars, dyndepVars >>

add_internal_gen_memory_layout_target ==
    \E a \in LayoutArgs :
        /\ GenCall(<< "add_internal_gen_memory_layout_target" >>)
        /\ edges' = edges \cup { memory_layout_edge(LayoutOutput, a.dependencies,
                                                   a.sys_exelist, a.app_exelist) }
        /\ called' = called \cup { << "add_internal_gen_memory_layout_target" >> }
        /\ call' = [op |-> "add_internal_gen_memory_layout_target", arg |-> a,
                    before |-> "none", ret |-> Returned(<< LayoutOutput >>)]
        /\ UNCHANGED << config, rules, file_closed, loaded, status, dyndeps,
                    codecVars, dyndepVars >>

close ==
    /\ ~file_closed
    /\ file_closed' = TRUE
    /\ call' = [op |-> "close", arg |-> "none", before |-> "none", ret |-> Completed]
    /\ UNCHANGED << config, rules, edges, called, loaded, status, dyndeps,
                    codecVars, dyndepVars >>

(***************************************************************************)
(* The graph executor (ninja) reading the closed file.  It is an external  *)
(* collaborator: phony targets, order-only and implicit inputs, pools of   *)
(* depth one ("console"), stop at the first failed command.                *)
(***************************************************************************)
EdgeOutputs(e) == SetOf(e.outputs) \cup SetOf(e.implicit_outputs)
EdgeInputs(e)  == SetOf(e.inputs) \cup SetOf(e.implicit) \cup SetOf(e.order_only)

\* the blocks that the dyndep file bound to e ($dyndep) declares for e, once
\* the file has been built and loaded
DyndepBlocks(e) ==
    IF HasKey(e.variables, "dyndep") /\ e.variables.dyndep \in DOMAIN dyndeps
          /\ dyndeps[e.variables.dyndep].kind = "dyndep"
    THEN { b \in SetOf(dyndeps[e.variables.dyndep].blocks) :
              b.target \in SetOf(e.outputs) }
    ELSE {}
\* a file name of a declaration as a node of the graph
FileNode(f) == << f >>
DyndepInputs(e) ==
    UNION { { FileNode(f) : f \in b.implicit_inputs } : b \in DyndepBlocks(e) }
\* the compile block names its outputs by introspection key, the install
\* block by path under the staging directory
DyndepOutputs(e) ==
    UNION { IF e.rule = "meson_install" THEN b.implicit_outputs
            ELSE { FileNode(f) : f \in b.implicit_outputs } :
            b \in DyndepBlocks(e) }

Producers(n)   == { e \in edges : n \in EdgeOutputs(e) \cup DyndepOutputs(e) }
Commands       == { e \in edges : e.rule # "phony" }

\* files that no build statement produces and that are not on disk
MissingFiles == { << "ghost", "_install.stamp" >> }

\* "multiple rules generate X", "unknown build rule", "missing and no known
\* rule to make it"
GraphAccepted ==
    /\ \A e \in edges : e.rule = "phony" \/ \E r \in rules : r.name = e.rule
    /\ \A e1, e2 \in edges : e1 # e2 => EdgeOutputs(e1) \cap EdgeOutputs(e2) = {}
    /\ \A e \in edges : \A n \in EdgeInputs(e) :
          Producers(n) = {} => n \notin MissingFiles

\* a node is up to date: a source file, the output of a finished command, or
\* a phony target all of whose inputs are up to date
RECURSIVE NodeReady(_, _)
NodeReady(n, depth) ==
    \A e \in Producers(n) :
        IF e.rule = "phony"
        THEN depth > 0 /\ \A m \in EdgeInputs(e) : NodeReady(m, depth - 1)
        ELSE status[e] = "done"

\* phony targets are looked through at most this many levels deep
PhonyDepth == 3
\* the executor runs at most this many commands at a time (ninja -j)
MaxJobs == 2
EdgeReady(e) ==
    \A n \in EdgeInputs(e) \cup DyndepInputs(e) : NodeReady(n, PhonyDepth)

PoolOf(e) == (CHOOSE r \in rules : r.name = e.rule).pool
Running == { e \in DOMAIN status : status[e] = "running" }

\* a pool of depth one admits a command only when none of its commands runs
PoolAdmits(e) ==
    PoolOf(e) = NoPool \/ \A f \in Running : PoolOf(f) # PoolOf(e)

Load ==
    /\ file_closed /\ loaded = "no"
    /\ IF GraphAccepted
       THEN loaded' = "ok" /\ status' = [e \in Commands |-> "pending"]
       ELSE loaded' = "rejected" /\ status' = status
    /\ UNCHANGED << config, rules, edges, called, file_closed, dyndeps, call,
                    codecVars, dyndepVars >>

Start ==
    \E e \in DOMAIN status :
        /\ loaded = "ok"
        /\ status[e] = "pending"
        /\ \A f \in DOMAIN status : status[f] # "failed"
        /\ Cardinality(Running) < MaxJobs
        /\ EdgeReady(e)
        /\ PoolAdmits(e)
        /\ status' = [status EXCEPT ![e] = "running"]
        /\ UNCHANGED << config, rules, edges, called, file_closed, loaded, dyndeps,
                        call, codecVars, dyndepVars >>

\* a path given on a command line, as the characters of the path
PathChars(s) ==
    IF s = "staging" THEN << "s", "t", "a", "g", "i", "n", "g" >>
    ELSE << "N", "o", "n", "e" >>

\* what "meson introspect" may report for a configured package
IntrospectChoices ==
    { [buildsystem_files |-> << "A", "B" >>, targets |-> << >>, installed |-> i] :
        i \in { EmptyMap, [k \in {"C"} |-> Chars_usr_bin_C],
                [k \in {"G"} |-> Chars_G] } }

\* the outputs a declaration adds to the statements it names
DeclaredOutputs(decl) ==
    { FileNode(f) : f \in decl.blocks[1].implicit_outputs }
        \cup decl.blocks[2].implicit_outputs

\* a running command ends.  A meson_package_dyndep command that succeeds
\* has written the declaration for some snapshot of its package; the
\* executor loads it, and stops with "multiple rules generate X" when it
\* names an output that another statement already produces
Finish ==
    \E e \in DOMAIN status, exit \in {"done", "failed"} :
        /\ status[e] = "running"
        /\ IF e.rule = "meson_package_dyndep" /\ exit = "done"
           THEN \E doc \in IntrospectChoices :
                   LET res == meson_package_dyndep_result(
                                  e.variables.name, TRUE, 0,
                                  [json |-> TRUE, doc |-> doc],
                                  PathChars(e.variables.stagingdir), NoFile)
                       others == UNION { EdgeOutputs(f) \cup DyndepOutputs(f) :
                                           f \in edges }
                   IN  IF DeclaredOutputs(res.file) \cap others = {}
                       THEN /\ status' = [status EXCEPT ![e] = "done"]
                            /\ dyndeps' = [dyndeps EXCEPT ![e.outputs[1]] = res.file]
                       ELSE /\ status' = [status EXCEPT ![e] = "failed"]
                            /\ dyndeps' = dyndeps
           ELSE /\ status' = [status EXCEPT ![e] = exit]
                /\ dyndeps' = dyndeps
        /\ UNCHANGED << config, rules, edges, called, file_closed, loaded, call,
                        codecVars, dyndepVars >>

(***************************************************************************)
(* Specifications                                                          *)
(***************************************************************************)
\* graph generation followed by execution of the generated graph
Init ==
    /\ config \in Projects
    /\ rules = {} /\ edges = {} /\ called = {}
    /\ file_closed = FALSE /\ loaded = "no" /\ status = NoStatus
    /\ dyndeps = NoDyndeps
    /\ IdleCodec /\ IdleDyndep
    /\ call = NoCall

Next ==
    \/ add_outpost_rules
    \/ add_outpost_internals_rules
    \/ add_meson_rules
    \/ add_outpost_targets
    \/ add_meson_package
    \/ add_internal_gen_memory_layout_target
    \/ close
    \/ Load
    \/ Start
    \/ Finish

Spec == Init /\ [][Next]_vars

\* the dependency synthesizer command, run repeatedly on one dyndep path
InitDyndep == IdleDyndep /\ IdleCodec /\ IdleGraph /\ call = NoCall
NextDyndep == run_meson_package_dyndep
SpecDyndep == InitDyndep /\ [][NextDyndep]_vars

\* the descriptor codec: accessors of a JobFlags and a TaskHandle
InitCodec ==
    /\ flags_raw \in FlagsSamples
    /\ handle_raw \in HandleSamples
    /\ IdleDyndep /\ IdleGraph /\ call = NoCall

NextCodec ==
    \/ JobFlags_autostart_mode_get
    \/ JobFlags_autostart_mode_set
    \/ JobFlags_exit_mode_get
    \/ JobFlags_exit_mode_set
    \/ TaskHandle_id_get
    \/ TaskHandle_id_set

SpecCodec == InitCodec /\ [][NextCodec]_vars

(***************************************************************************)
(* Properties                                                              *)
(***************************************************************************)
ConfigureEdges(name) ==
    { e \in edges : e.rule = "meson_setup" /\ e.variables.name = name }
PackageCommand(rule, name) ==
    { e \in DOMAIN status : e.rule = rule /\ e.variables.name = name }
Emitted(name) ==
    << "add_meson_package", name >> \in called /\ HasKey(config[name], "config_file")

\* C1 as stated: the configure edge of every package is order-only on the
\* install phony alias <dep>_install of each declared dependency, and on
\* nothing else.
C1_ConfigureAfterInstallAlias ==
    \A name \in PackageNames : \A e \in ConfigureEdges(name) :
        LET D == Package_deps(config[name])
        IN  e.order_only = [i \in DOMAIN D |-> << D[i], "_install" >>]

\* C1 amended: for every package emitted by add_meson_package there is one
\* configure edge (rule meson_setup, output <build_dir>/build.ninja) and its
\* order-only inputs are exactly the install stamps <dep>_install.stamp of
\* the declared dependencies, one per entry; none when nothing is declared.
C1_ConfigureAfterInstallStamp ==
    \A name \in PackageNames :
        /\ Emitted(name) => Cardinality(ConfigureEdges(name)) = 1
        /\ \A e \in ConfigureEdges(name) :
              LET D == Package_deps(config[name])
              IN  /\ e.outputs = << << Package_getattr(config[name], "build_dir"),
                                      "/build.ninja" >> >>
                  /\ Len(e.order_only) = Len(D)
                  /\ \A i \in DOMAIN D :
                        e.order_only[i] = << D[i], "_install.stamp" >>
                  /\ ~HasKey(config[name], "deps") => e.order_only = << >>

C1_Witness ==
    /\ Package_deps(config["hello"]) = << "libshield", "ghost" >>
    /\ ~HasKey(config["libshield"], "deps")
    /\ ConfigureEdges("hello") # {} /\ ConfigureEdges("libshield") # {}

\* C2: in every execution of the generated graph, a package's dyndep edge
\* has started only if its configure command is done, and its compile and
\* install commands have started only if its dyndep edge is done.
C2_DyndepOrdering ==
    loaded = "ok" =>
        \A name \in PackageNames :
            /\ \A d \in PackageCommand("meson_package_dyndep", name) :
                  status[d] # "pending" =>
                      /\ PackageCommand("meson_setup", name) # {}
                      /\ \A c \in PackageCommand("meson_setup", name) :
                            status[c] = "done"
            /\ \A s \in PackageCommand("meson_compile", name)
                        \cup PackageCommand("meson_install", name) :
                  status[s] # "pending" =>
                      /\ PackageCommand("meson_package_dyndep", name) # {}
                      /\ \A d \in PackageCommand("meson_package_dyndep", name) :
                            status[d] = "done"

C2_Witness ==
    /\ loaded = "ok"
    /\ \E c \in PackageCommand("meson_compile", "hello") : status[c] = "done"
    /\ \E i \in PackageCommand("meson_install", "hello") : status[i] = "running"
    /\ \E d \in PackageCommand("meson_package_dyndep", "libshield") :
          status[d] = "pending"

ToolRules == {"outpost_reconfigure", "meson_setup", "meson_compile", "meson_install"}
InternalRules == internal_commands \cup {"internal"}

\* C9 as stated: the external-tool rules are in the console pool and the
\* internal rules are in no pool.
C9_InternalRulesUnpooled ==
    \A r \in rules :
        /\ r.name \in ToolRules => r.pool = "console"
        /\ r.name \in InternalRules => r.pool = NoPool

\* C9 amended: every rule the generator emits, the internal ones included,
\* is bound to the console pool, so no two commands of the graph run at the
\* same time, with or without a dependency path between them.
C9_AllRulesSerialized ==
    /\ \A r \in rules : r.name \in ToolRules \cup InternalRules /\ r.pool = "console"
    /\ Cardinality(Running) <= 1

\* two internal edges with no path between them, one held back by the pool
C9_Witness ==
    /\ loaded = "ok"
    /\ \E d1 \in PackageCommand("meson_package_dyndep", "hello"),
          d2 \in PackageCommand("meson_package_dyndep", "libshield") :
          /\ status[d1] = "running"
          /\ status[d2] = "pending" /\ EdgeReady(d2)
          /\ ~PoolAdmits(d2)

\* C10: the memory-layout edge has among its implicit inputs the install
\* stamp of every package in dependencies and the resolved path of every
\* executable of sys_exelist and of app_exelist.
C10_LayoutImplicitInputs ==
    call.op = "add_internal_gen_memory_layout_target" =>
        \E e \in edges :
            /\ e.outputs = call.ret.value
            /\ \A i \in DOMAIN call.arg.dependencies :
                  << call.arg.dependencies[i], "_install.stamp" >> \in SetOf(e.implicit)
            /\ \A i \in DOMAIN call.arg.sys_exelist :
                  Resolve(call.arg.sys_exelist[i]) \in SetOf(e.implicit)
            /\ \A i \in DOMAIN call.arg.app_exelist :
                  Resolve(call.arg.app_exelist[i]) \in SetOf(e.implicit)

DyndepCalled == call.op = "run_meson_package_dyndep"
DyndepWritten == DyndepCalled /\ call.ret.kind = "ok"
SnapshotOfCall == call.arg.stdout.doc
CompileBlock == fs[DyndepPath].blocks[1]
InstallBlock == fs[DyndepPath].blocks[2]

\* every path listed under sources or generated_sources of any group of any
\* target of the snapshot
AllSourcePaths(doc) ==
    UNION { UNION { (IF HasKey(g, "sources") THEN SetOf(g.sources) ELSE {})
                    \cup (IF HasKey(g, "generated_sources")
                          THEN SetOf(g.generated_sources) ELSE {}) :
                    g \in SetOf(t.target_sources) } :
            t \in { u \in SetOf(doc.targets) : HasKey(u, "target_sources") } }

\* C3: the implicit inputs written for the compile step are the build-system
\* files and all source and generated-source paths, minus the keys of
\* installed; so they hold no key of installed and are disjoint from the
\* compile step's implicit outputs.
C3_CompileImplicitInputs ==
    DyndepWritten =>
        LET doc == SnapshotOfCall
        IN  /\ CompileBlock.target = << call.arg.name, "_compile.stamp" >>
            /\ CompileBlock.implicit_inputs =
                  (SetOf(doc.buildsystem_files) \cup AllSourcePaths(doc))
                  \ DOMAIN doc.installed
            /\ CompileBlock.implicit_inputs \cap DOMAIN doc.installed = {}
            /\ CompileBlock.implicit_inputs \cap CompileBlock.implicit_outputs = {}

\* an installed file that is also a source and a build-system file, beside a
\* target without target_sources
C3_Witness ==
    /\ DyndepWritten
    /\ "C" \in DOMAIN SnapshotOfCall.installed
    /\ "C" \in SetOf(SnapshotOfCall.buildsystem_files)
    /\ "C" \in AllSourcePaths(SnapshotOfCall)
    /\ \E i \in DOMAIN SnapshotOfCall.targets :
          ~HasKey(SnapshotOfCall.targets[i], "target_sources")
    /\ CompileBlock.implicit_inputs = {"A", "D", "G", "H"}
    /\ CompileBlock.implicit_outputs = {"C"}

IsAbsolute(d) == d # << >> /\ d[1] = "/"
StripLeadingSep(d) == IF IsAbsolute(d) THEN Tail(d) ELSE d
Chars_stage_usr_bin_C ==
    << "/", "s", "t", "a", "g", "e", "/", "u", "s", "r", "/", "b", "i", "n", "/", "C" >>

\* C4: when every installed destination is absolute, the install step's
\* implicit inputs are the compile step's implicit outputs (the keys of
\* installed) and its implicit outputs are the destinations re-rooted under
\* the staging directory, the leading separator removed;
\* {C: /usr/bin/C} under /stage gives {/stage/usr/bin/C}.
C4_InstallSets ==
    (DyndepWritten
        /\ \A k \in DOMAIN SnapshotOfCall.installed :
              IsAbsolute(SnapshotOfCall.installed[k])) =>
        LET installed == SnapshotOfCall.installed
        IN  /\ InstallBlock.target = << call.arg.name, "_install.stamp" >>
            /\ InstallBlock.implicit_inputs = CompileBlock.implicit_outputs
            /\ CompileBlock.implicit_outputs = DOMAIN installed
            /\ InstallBlock.implicit_outputs =
                  { PathJoin(call.arg.stagingdir, StripLeadingSep(installed[k])) :
                      k \in DOMAIN installed }
            /\ (DOMAIN installed = {"C"} /\ installed["C"] = Chars_usr_bin_C
                  /\ call.arg.stagingdir = Chars_stage) =>
                  InstallBlock.implicit_outputs = { Chars_stage_usr_bin_C }

C4_Witness ==
    /\ DyndepWritten
    /\ DOMAIN SnapshotOfCall.installed = {"C"}
    /\ SnapshotOfCall.installed["C"] = Chars_usr_bin_C
    /\ InstallBlock.implicit_inputs = {"C"}
    /\ InstallBlock.implicit_outputs = { Chars_stage_usr_bin_C }

MissingKeys(stdout) == IF stdout.json THEN SnapshotKeys \ DOMAIN stdout.doc ELSE {}

\* C8: when introspection exits non-zero, or its payload does not parse, or
\* the snapshot lacks one of buildsystem_files, targets, installed, the call
\* fails and the dyndep file is as it was before the call; a snapshot with
\* an empty target list succeeds and the file holds both blocks.
C8_FailureLeavesFileUntouched ==
    DyndepCalled =>
        LET a == call.arg
        IN  /\ (a.returncode # 0 \/ ~a.stdout.json \/ MissingKeys(a.stdout) # {}) =>
                  /\ call.ret.kind = "error"
                  /\ fs = call.before
            /\ (a.builddir_exists /\ a.returncode = 0 /\ a.stdout.json
                  /\ MissingKeys(a.stdout) = {} /\ a.stdout.doc.targets = << >>) =>
                  /\ call.ret.kind = "ok"
                  /\ fs[DyndepPath].kind = "dyndep"
                  /\ Len(fs[DyndepPath].blocks) = 2
                  /\ CompileBlock.target = << a.name, "_compile.stamp" >>
                  /\ InstallBlock.target = << a.name, "_install.stamp" >>

\* a snapshot without "installed" arrives while a declaration from an
\* earlier run is on disk
C8_Witness ==
    /\ DyndepCalled
    /\ call.arg.builddir_exists /\ call.arg.returncode = 0
    /\ MissingKeys(call.arg.stdout) = {"installed"}
    /\ call.ret.kind = "error"
    /\ call.before[DyndepPath].kind = "dyndep"
    /\ fs[DyndepPath] = call.before[DyndepPath]

\* C5: the exit_mode setter changes bits 1-3 only and the autostart_mode
\* setter changes bit 0 only; 0x00000003 with exit mode set to panic becomes
\* 0x00000005.
C5_SettersKeepOtherBits ==
    /\ (call.op = "exit_mode.set" /\ call.ret.kind = "ok") =>
          /\ flags_raw \ (1 .. 3) = call.before \ (1 .. 3)
          /\ (call.before = FromInt(3) /\ call.arg = "panic") =>
                flags_raw = FromInt(5)
    /\ call.op = "autostart_mode.set" =>
          flags_raw \ {0} = call.before \ {0}

C5_Witness ==
    /\ call.op = "exit_mode.set" /\ call.arg = "panic"
    /\ call.before = {0, 1}
    /\ flags_raw = {0, 2}

\* C6: after the id setter is called with a 16-bit id, bits 13-28 hold the
\* id, every other bit is as before, and the getter returns the id.
C6_IdSetterReadModifyWrite ==
    (call.op = "id.set" /\ call.arg < 65536) =>
        /\ { i - 13 : i \in handle_raw \cap (13 .. 28) } = FromInt(call.arg)
        /\ handle_raw \ (13 .. 28) = call.before \ (13 .. 28)
        /\ handle_raw \subseteq 0 .. 31
        /\ id_get(handle_raw) = call.arg

C6_Witness ==
    /\ call.op = "id.set" /\ call.arg = 43690
    /\ call.before = (0 .. 12) \cup (29 .. 31)
    /\ handle_raw \ (13 .. 28) = (0 .. 12) \cup (29 .. 31)
    /\ id_get(handle_raw) = 43690

\* C7: reading the exit mode fails with an invalid-enum error when bits 1-3
\* hold 5, 6 or 7, and returns a mode only for 0..4.
C7_InvalidExitModeRejected ==
    call.op = "exit_mode.get" =>
        LET stored == ToInt({ i - 1 : i \in call.before \cap (1 .. 3) })
        IN  IF stored \in 0 .. 4
            THEN call.ret.kind = "value" /\ call.ret.value = stored
            ELSE call.ret.kind = "error"

\* C12: a successful run of the meson_package_dyndep command leaves both of
\* the outputs its build statement declares on disk: the declaration file
\* (the dyndep argument) and the introspection capture (the -j argument).
C12_CommandWritesDeclaredOutputs ==
    (DyndepCalled /\ call.ret.kind = "ok") =>
        /\ fs[call.arg.dyndep].kind = "dyndep"
        /\ fs[call.arg.outfile].kind # "absent"

\* the snapshot's installed mapping behind the declaration loaded for a
\* package: the keys are the compile block's implicit outputs
InstalledKeys(name) == dyndeps[<< name, ".dyndep" >>].blocks[1].implicit_outputs

\* C11: in every execution of a package's static edges extended by the
\* declaration synthesized for it, the install command has started only if
\* the compile command of the same package is done, whatever the snapshot,
\* an empty installed mapping included.
C11_InstallAfterCompile ==
    loaded = "ok" =>
        \A name \in PackageNames :
            \A i \in PackageCommand("meson_install", name) :
                status[i] # "pending" =>
                    /\ PackageCommand("meson_compile", name) # {}
                    /\ \A c \in PackageCommand("meson_compile", name) :
                          status[c] = "done"

\* the same ordering for the packages whose snapshot installs at least one
\* file: the install block's implicit inputs are outputs of the compile
\* command
C11_InstallAfterCompileWhenInstalled ==
    loaded = "ok" =>
        \A name \in PackageNames :
            \A i \in PackageCommand("meson_install", name) :
                (status[i] # "pending" /\ InstalledKeys(name) # {}) =>
                    /\ PackageCommand("meson_compile", name) # {}
                    /\ \A c \in PackageCommand("meson_compile", name) :
                          status[c] = "done"

\* a package that installs a file has its install command running after
\* its compile command
C11_WitnessInstalled ==
    /\ loaded = "ok"
    /\ \E i \in PackageCommand("meson_install", "hello") :
          status[i] = "running" /\ InstalledKeys("hello") = {"C"}
    /\ \E c \in PackageCommand("meson_compile", "hello") : status[c] = "done"

\* a package that installs nothing has its install command done while its
\* compile command has not started
C11_InstallBeforeCompile ==
    /\ loaded = "ok"
    /\ \E i \in PackageCommand("meson_install", "hello") :
          status[i] = "done" /\ InstalledKeys("hello") = {}
    /\ \E c \in PackageCommand("meson_compile", "hello") : status[c] = "pending"

=============================================================================
